---- MODULE Spec2Model ----
(***************************************************************************)
(* The presentation engine of video/out/opengl/context_drm_egl.c: the      *)
(* buffer-object swapchain, the fence FIFO, the CRTC session, the flip     *)
(* scheduler and the VT hooks, as one state machine.                       *)
(*                                                                         *)
(* Everything runs on one thread.  drm_egl_swap_buffers is split at its    *)
(* loop so that the states inside the call can be observed:                *)
(*   pc = "loop"  about to evaluate the while condition (line 631)         *)
(*   pc = "wait"  inside wait_on_flip (line 634)                           *)
(*   pc = "body"  after the if (waiting_for_flip) block (line 637)         *)
(* Outside the call pc is "idle", "started" (after start_frame) or         *)
(* "submitted" (after submit_frame); "dead" after drm_egl_uninit.          *)
(* probe_gbm_format, which runs inside drm_egl_init, is stepped through on  *)
(* its own with pc = "init".                                               *)
(***************************************************************************)
EXTENDS Integers, Sequences, FiniteSets, TLC

\* Bounds of the model.
NumBos == 3         \* colour buffers of the gbm surface, named 1..NumBos
MaxDepth == 2       \* the swapchain_depth option ranges over 1..MaxDepth
MaxSbc == 4         \* frames enqueued in one run (vsync.sbc stops there)
MaxCalls == 2       \* the ghost call counters saturate here
MaxFaults == 1      \* failures of collaborators in one run (a refused flip commit is not counted)
MaxFormats == 3     \* formats advertised by the draw plane (drmplane->count_formats)
MaxFences == 3      \* fences in the FIFO when wait_fence is run on its own

NoBo == 0           \* a NULL struct gbm_bo *

Bos == 1..NumBos

VARIABLES
    \* struct priv / struct gbm
    bo_queue,           \* p->gbm.bo_queue[0..num_bos): frames [bo, sbc]
    sbc,                \* p->vsync.sbc
    vsync_fences,       \* p->vsync_fences: each fence tagged with the sbc of its frame
    active,             \* p->active
    waiting_for_flip,   \* p->waiting_for_flip
    paused,             \* p->paused
    still,              \* p->still
    p_fb,               \* p->fb, named by the bo whose user data it is
    vsync_info,         \* p->vsync_info: last_queue_display_time and skipped_vsyncs
    \* configuration
    depth,              \* ctx->vo->opts->swapchain_depth
    hasFenceSync,       \* p->gl.FenceSync != NULL
    fence,              \* wait_fence run one step at a time: position, input and GL calls
    probe,              \* probe_gbm_format: its inputs, locals and results (p->gbm_format)
    \* control
    pc,
    drain,              \* the local const bool drain of drm_egl_swap_buffers
    \* collaborators
    locked,             \* gbm surface: the buffers currently locked
    fbOf,               \* gbm bo user data: "none", "ok" (id valid), "bad" (id 0)
    request,            \* atomic_ctx->request: "null" or "live"
    saved,              \* atomic_ctx->old_state.saved
    master,             \* the fd holds DRM master
    events,             \* kernel: completion events not yet dispatched (sbc of the flipped frame)
    faults,             \* collaborator failures so far
    \* history (what the collaborators were asked to do)
    released,           \* frames handed to gbm_surface_release_buffer, in call order
    flips,              \* sbc of every frame whose flip commit the kernel accepted, in order
    lastFlip,           \* the most recent queue_flip call
    swapRet,            \* how the last drm_egl_swap_buffers call returned
    waitErr,            \* the last wait_on_flip of the current call returned on a dispatch error
    holeStep,           \* the last pass through the "Hole in swapchain?" branch
    sess,               \* session commits since the last crtc_release / crtc_setup call
    tx,                 \* libdrm: atomic requests allocated and not freed
    vt,                 \* the last VT hook: master state around its session commit
    fbCalls             \* per buffer: drmModeAddFB2 calls, those that succeeded, drmModeRmFB calls

progVars == <<bo_queue, sbc, vsync_fences, active, waiting_for_flip, paused, still, p_fb, vsync_info>>
confVars == <<depth, hasFenceSync, probe, fence>>
envVars == <<locked, fbOf, request, saved, master, events, faults>>
histVars == <<released, flips, lastFlip, swapRet, waitErr, holeStep, sess, tx, vt, fbCalls>>
vars == <<progVars, confVars, pc, drain, envVars, histVars>>

Frame(bo, n) == [bo |-> bo, sbc |-> n]

NoFlip == [sbc |-> 0, bo |-> NoBo, pending |-> FALSE, ok |-> FALSE, fb |-> "none", subs |-> 0]
NoHole == [seen |-> FALSE, hole |-> 0, head |-> 0, retired |-> {}, next |-> 0]
NoRet == [how |-> "none", drain |-> FALSE, werr |-> FALSE]
NoSess == [setupCalls |-> 0, setupCommits |-> 0, setupRet |-> TRUE,
           releaseCalls |-> 0, releaseCommits |-> 0, relSaved |-> FALSE]
\* drm_egl_init, lines 918-919: skipped_vsyncs = -1 and
\* last_queue_display_time = -1.
NoVsyncInfo == [last |-> "unset", skipped |-> "unset"]

\* struct priv as talloc_zero leaves it (line 778): both fields are 0 until
\* the end of drm_egl_init.
ZeroVsyncInfo == [last |-> "zero", skipped |-> "zero"]

\* live: requests allocated and not freed; peak: the most that were live at
\* once during the last call that handles requests; leaked: requests no
\* pointer refers to any more; subs: commits of the request in the slot.
NoTx == [live |-> 0, peak |-> 0, leaked |-> 0, subs |-> 0]
\* wait_fence is not being stepped through.
NoFence == [at |-> "off", input |-> << >>, waited |-> << >>, deleted |-> << >>,
            timeouts |-> 0]

\* No framebuffer call has been made for any buffer object.
NoFbCalls == [x \in Bos |-> [add |-> 0, made |-> 0, rm |-> 0]]

NoVt == [hook |-> "none", commit |-> FALSE, master |-> FALSE, before |-> FALSE, got |-> FALSE]

Bump(n) == IF n < MaxCalls THEN n + 1 ELSE n

\* A step in which k collaborator calls fail.
Fails(k) == faults + k <= MaxFaults /\ faults' = faults + k
Cost(ok) == IF ok THEN 0 ELSE 1

Min(S) == CHOOSE x \in S : \A y \in S : x <= y

(***************************************************************************)
(* Buffer queue                                                            *)
(***************************************************************************)

\* Mutant of enqueue_bo: the entry is appended without its buffer.
enqueue_bo_null(q, bo, n) == Append(q, Frame(NoBo, n))

\* Mutant of enqueue_bo: the frame is put at the head.
enqueue_bo_front(q, bo, n) == <<Frame(bo, n)>> \o q

\* enqueue_bo: the frame is appended at the tail, stamped with the counter
\* after its increment.
enqueue_bo(q, bo, n) == Append(q, Frame(bo, n))

\* Mutant of dequeue_bo: the newest entry is removed instead of the head.
dequeue_bo_last(q) == SubSeq(q, 1, Len(q) - 1)

\* dequeue_bo: MP_TARRAY_REMOVE_AT(..., 0).
dequeue_bo(q) == Tail(q)

\* gbm_surface_release_buffer, on the producer's set of locked buffers.
gbm_surface_release_buffer(lk, bo) == lk \ {bo}

\* gbm_surface_has_free_buffers.
gbm_surface_has_free_buffers(lk) == Cardinality(lk) < NumBos

\* gbm_surface_lock_front_buffer: a buffer that was free, or NULL.  Any free
\* buffer that was locked before may be the answer (used lists those: the
\* state names them, so they are told apart); the buffers that were never
\* locked appear nowhere in the state and are interchangeable, so of them
\* only the lowest is offered.
gbm_surface_lock_front_buffer(lk, used) ==
    LET free == Bos \ lk
        fresh == free \ used
        old == free \cap used
    IN  old \cup (IF fresh = {} THEN {} ELSE {Min(fresh)}) \cup {NoBo}

\* Mutant of swapchain_step: the head entry is removed without its buffer
\* going back to the producer.
swapchain_step_keep(q, lk, rel) ==
    [queue |-> IF Len(q) > 0 THEN Tail(q) ELSE q, locked |-> lk, released |-> rel]

\* swapchain_step on (queue, locked, released): nothing on an empty queue;
\* otherwise the head's buffer, if present, goes back to the producer and the
\* head entry is removed.
swapchain_step(q, lk, rel) ==
    IF ~(Len(q) > 0)
    THEN [queue |-> q, locked |-> lk, released |-> rel]
    ELSE [queue |-> dequeue_bo(q),
          locked |-> IF q[1].bo # NoBo
                     THEN gbm_surface_release_buffer(lk, q[1].bo) ELSE lk,
          released |-> IF q[1].bo # NoBo THEN Append(rel, q[1]) ELSE rel]

(***************************************************************************)
(* Fences                                                                  *)
(***************************************************************************)

\* new_fence: a fence is appended when FenceSync exists and returns one.
new_fence(f, n, made) == IF hasFenceSync /\ made THEN Append(f, n) ELSE f

\* Mutant of wait_fence_cond: the loop runs while any fence is left.
wait_fence_cond_any(f, nbos) == Len(f) # 0

\* The loop condition of wait_fence (line 580).
wait_fence_cond(f, nbos) == Len(f) # 0 /\ Len(f) >= nbos

\* wait_fence: the front fence is waited on and deleted while there are
\* fences and at least as many fences as queue entries.
RECURSIVE wait_fence(_, _)
wait_fence(f, nbos) ==
    IF wait_fence_cond(f, nbos) THEN wait_fence(Tail(f), nbos) ELSE f

(***************************************************************************)
(* Format negotiation                                                      *)
(***************************************************************************)

\* The values of the drm-format option and the formats a plane can advertise.
DrmFormats == {"xrgb8888", "xrgb2101010", "xbgr2101010", "xbgr8888"}
PlaneFormats == {"ARGB8888", "XRGB8888", "ARGB2101010", "XRGB2101010",
                 "ABGR8888", "XBGR8888", "ABGR2101010", "XBGR2101010", "NV12"}

\* The switch of drm_egl_init (lines 812-829): the alpha format tried first.
argb_format(opt) ==
    CASE opt = "xrgb2101010" -> "ARGB2101010"
      [] opt = "xbgr2101010" -> "ABGR2101010"
      [] opt = "xbgr8888" -> "ABGR8888"
      [] OTHER -> "ARGB8888"

\* The switch of drm_egl_init (lines 812-829): the opaque fallback.
xrgb_format(opt) ==
    CASE opt = "xrgb2101010" -> "XRGB2101010"
      [] opt = "xbgr2101010" -> "XBGR2101010"
      [] opt = "xbgr8888" -> "XBGR8888"
      [] OTHER -> "XRGB8888"

\* Mutant of probe_select: the opaque format is preferred.
probe_select_opaque(have_argb, have_xrgb, argb, xrgb, fmt) ==
    IF have_xrgb THEN [gbm_format |-> xrgb, result |-> TRUE]
    ELSE IF have_argb THEN [gbm_format |-> argb, result |-> TRUE]
    ELSE [gbm_format |-> fmt, result |-> FALSE]

\* probe_gbm_format after its loop (lines 716-725): p->gbm_format (fmt before
\* the call) and the result.
probe_select(have_argb, have_xrgb, argb, xrgb, fmt) ==
    IF have_argb THEN [gbm_format |-> argb, result |-> TRUE]
    ELSE IF have_xrgb THEN [gbm_format |-> xrgb, result |-> TRUE]
    ELSE [gbm_format |-> fmt, result |-> FALSE]

\* The state of a probe_gbm_format call on entry; p->gbm_format is 0 ("none")
\* from talloc_zero.  plane is what drmModeGetPlane returned: the plane, whose
\* formats are listed, or NULL.
ProbeEntry(opt, formats) ==
    [opt |-> opt, formats |-> formats, i |-> 0, have_argb |-> FALSE,
     have_xrgb |-> FALSE, gbm_format |-> "none", result |-> FALSE, at |-> "loop",
     plane |-> "ok"]

\* The probe of the initialization this model starts after: the default
\* option on a plane that advertises the alpha format.
Probed ==
    [ProbeEntry("xrgb8888", <<"ARGB8888">>) EXCEPT
        !.i = 1, !.have_argb = TRUE, !.gbm_format = "ARGB8888",
        !.result = TRUE, !.at = "done"]

(***************************************************************************)
(* Initial state: after a successful drm_egl_init                          *)
(***************************************************************************)

\* drm_egl_init locks the first front buffer, enqueues it, registers its
\* framebuffer (init fails unless the id is valid) and establishes the
\* session (init fails unless crtc_setup returns true).  No atomic request
\* exists yet, and no fence.
Init ==
    /\ \E b \in {1} :
        /\ bo_queue = enqueue_bo(<< >>, b, 1)
        /\ locked = {b}
        /\ fbOf = [x \in Bos |-> IF x = b THEN "ok" ELSE "none"]
        /\ p_fb = b
    /\ sbc = 1
    /\ vsync_fences = << >>
    /\ active = TRUE
    /\ waiting_for_flip = FALSE
    /\ paused = FALSE
    /\ still = FALSE
    /\ vsync_info = NoVsyncInfo
    /\ depth \in 1..MaxDepth
    /\ hasFenceSync \in BOOLEAN
    /\ probe = Probed
    /\ fence = NoFence
    /\ pc = "idle"
    /\ drain = FALSE
    /\ request = "null"
    /\ \E saveOk \in BOOLEAN :
         /\ saved = saveOk
         /\ faults = Cost(saveOk)
    /\ master = TRUE
    /\ events = << >>
    /\ released = << >>
    /\ flips = << >>
    /\ lastFlip = NoFlip
    /\ swapRet = NoRet
    /\ waitErr = FALSE
    /\ holeStep = NoHole
    /\ sess = [NoSess EXCEPT !.setupCalls = 1, !.setupCommits = 1]
    /\ tx = [NoTx EXCEPT !.peak = 1]
    /\ vt = NoVt
    /\ fbCalls = [NoFbCalls EXCEPT ![1] = [add |-> 1, made |-> 1, rm |-> 0]]


(***************************************************************************)
(* Kernel and framebuffer registry                                         *)
(***************************************************************************)

\* drmModeAtomicAlloc: a fresh request, or NULL.
drmModeAtomicAlloc == {"live", "null"}

\* Mutant of drmModeAtomicFree: the request is not given back.
drmModeAtomicFree_leak(n) == n

\* drmModeAtomicFree of a request that exists, on the number of live requests.
drmModeAtomicFree(n) == n - 1

\* drmModeAtomicCommit, as the kernel answers it: it may always refuse; it
\* can accept only a request that exists, from a master, and (for a plane
\* bound to the CRTC) with a valid framebuffer id.
drmModeAtomicCommit(req, m, fb) ==
    {FALSE} \cup (IF req = "live" /\ m /\ fb = "ok" THEN {TRUE} ELSE {})

\* Mutant of fb_cached: only a record with a valid id counts as cached.
fb_cached_valid(fbs, bo) == fbs[bo] = "ok"

\* Lines 291-292: the buffer object already carries a record.
fb_cached(fbs, bo) == fbs[bo] # "none"

\* update_framebuffer_from_bo on the buffers' user data: a cached record is
\* kept; otherwise one is created and attached whether or not the add-
\* framebuffer call succeeded.
update_framebuffer_from_bo(fbs, bo, added) ==
    IF fb_cached(fbs, bo) THEN fbs
    ELSE [fbs EXCEPT ![bo] = IF added THEN "ok" ELSE "bad"]

\* The kernel calls of update_framebuffer_from_bo: none for a cached record,
\* otherwise one add-framebuffer call (lines 307 / 329), which may fail.
drmModeAddFB2(calls, fbs, bo, added) ==
    IF fb_cached(fbs, bo) THEN calls
    ELSE [calls EXCEPT ![bo].add = @ + 1,
                       ![bo].made = IF added THEN @ + 1 ELSE @]

\* framebuffer_destroy_callback, run by the producer for each buffer object
\* it destroys: drmModeRmFB is called whenever the buffer carries a record,
\* with whatever id the record holds.
framebuffer_destroy_callback(calls, fbs, bo) ==
    IF fbs[bo] # "none" THEN [calls EXCEPT ![bo].rm = @ + 1] ELSE calls

\* gbm_surface_destroy (line 680): every buffer object of the surface is
\* destroyed, each running its destroy callback.
RECURSIVE gbm_surface_destroy(_, _, _)
gbm_surface_destroy(calls, fbs, bos) ==
    IF bos = {} THEN calls
    ELSE LET bo == CHOOSE x \in bos : TRUE
         IN  gbm_surface_destroy(framebuffer_destroy_callback(calls, fbs, bo),
                                 fbs, bos \ {bo})

\* drm_pflip_cb (video/out/drm_common.c), as far as the pending flag goes:
\* the completion callback clears it.
drm_pflip_cb(w) == FALSE

\* drm_pflip_cb (video/out/drm_common.c), as far as the timing fields go:
\* the callback stores the last display time and the skipped-vsync count
\* it computed.
drm_pflip_cb_info(vi) == [last |-> "flip", skipped |-> "flip"]

\* drm_atomic_save_old_state (video/out/drm_common.c): on success the old
\* state counts as saved.
drm_atomic_save_old_state(sv, ok) == sv \/ ok

\* drm_atomic_restore_old_state (video/out/drm_common.c): the saved state is
\* consumed by the restore.
drm_atomic_restore_old_state(sv) == FALSE

(***************************************************************************)
(* Session                                                                 *)
(***************************************************************************)

\* Mutant of SetupIsNoop: crtc_setup always goes through.
SetupNeverNoop == FALSE

\* crtc_setup, line 344: an active session makes the call a no-op.
SetupIsNoop == active

\* crtc_release, line 421: an inactive session makes the call a no-op.
ReleaseIsNoop == ~active

\* crtc_setup with the fd's master state m, while n requests are live (k
\* failures precede it in the calling hook).  p->active is set before
\* anything can fail.  The steps that can fail before the commit are the
\* request allocation ("alloc"), the connector's CRTC_ID property ("conn",
\* which returns without freeing the request) and the mode blob and CRTC
\* properties ("prop", which free it); the commit is the last step.  A commit
\* the kernel could not have accepted is not counted as a failure of its own.
crtc_setup(m, k, n) ==
    IF SetupIsNoop
    THEN /\ Fails(k)
         /\ sess' = [sess EXCEPT !.setupCalls = Bump(@), !.setupRet = TRUE,
                                 !.releaseCalls = 0, !.releaseCommits = 0]
         /\ tx' = [tx EXCEPT !.live = n, !.peak = n]
         /\ UNCHANGED <<active, saved>>
    ELSE /\ active' = TRUE
         /\ \E saveOk \in BOOLEAN, step \in {"alloc", "conn", "prop", "commit"} :
              LET can == drmModeAtomicCommit("live", m, fbOf[p_fb])
              IN  /\ saved' = drm_atomic_save_old_state(saved, saveOk)
                  /\ \E ok \in (IF step = "commit" THEN can ELSE {FALSE}) :
                       /\ Fails(k + Cost(saveOk)
                                + (IF step = "commit" /\ TRUE \notin can THEN 0 ELSE Cost(ok)))
                       /\ sess' = [sess EXCEPT
                                    !.setupCalls = Bump(@),
                                    !.setupCommits = IF step = "commit" THEN Bump(@) ELSE @,
                                    !.setupRet = ok,
                                    !.releaseCalls = 0, !.releaseCommits = 0]
                       /\ tx' = CASE step = "alloc" ->
                                       [tx EXCEPT !.live = n, !.peak = n]
                                  [] step = "conn" ->
                                       [tx EXCEPT !.live = n + 1, !.peak = n + 1,
                                                  !.leaked = @ + 1]
                                  [] OTHER ->
                                       [tx EXCEPT !.live = drmModeAtomicFree(n + 1),
                                                  !.peak = n + 1]

\* Mutant of crtc_release: a failed request allocation returns before
\* p->active is cleared.
crtc_release_abort(k, n) ==
    IF ReleaseIsNoop
    THEN /\ Fails(k)
         /\ sess' = [sess EXCEPT !.releaseCalls = Bump(@),
                                 !.setupCalls = 0, !.setupCommits = 0]
         /\ tx' = [tx EXCEPT !.live = n, !.peak = n]
         /\ UNCHANGED <<active, saved>>
    ELSE \E req \in drmModeAtomicAlloc :
           /\ Fails(k + Cost(req = "live"))
           /\ active' = (req # "live")
           /\ saved' = IF req = "live" /\ saved
                       THEN drm_atomic_restore_old_state(saved) ELSE saved
           /\ sess' = [sess EXCEPT
                         !.releaseCalls = Bump(@),
                         !.releaseCommits = IF req = "live" /\ saved THEN Bump(@) ELSE @,
                         !.relSaved = saved,
                         !.setupCalls = 0, !.setupCommits = 0]
           /\ tx' = [tx EXCEPT !.live = n, !.peak = n + 1]

\* crtc_release while n requests are live (k failures follow it in the
\* calling hook).  p->active is cleared first; without a saved state nothing
\* else happens; with one, the restoring commit is issued whenever the
\* request could be allocated, and the request is freed.
crtc_release(k, n) ==
    IF ReleaseIsNoop
    THEN /\ Fails(k)
         /\ sess' = [sess EXCEPT !.releaseCalls = Bump(@),
                                 !.setupCalls = 0, !.setupCommits = 0]
         /\ tx' = [tx EXCEPT !.live = n, !.peak = n]
         /\ UNCHANGED <<active, saved>>
    ELSE /\ active' = FALSE
         /\ IF ~saved
            THEN /\ Fails(k)
                 /\ sess' = [sess EXCEPT !.releaseCalls = Bump(@),
                                         !.relSaved = FALSE,
                                         !.setupCalls = 0, !.setupCommits = 0]
                 /\ tx' = [tx EXCEPT !.live = n, !.peak = n]
                 /\ UNCHANGED saved
            ELSE \E req \in drmModeAtomicAlloc :
                   /\ Fails(k + Cost(req = "live"))
                   /\ saved' = IF req = "live"
                               THEN drm_atomic_restore_old_state(saved) ELSE saved
                   /\ sess' = [sess EXCEPT
                                 !.releaseCalls = Bump(@),
                                 !.releaseCommits = IF req = "live" THEN Bump(@) ELSE @,
                                 !.relSaved = TRUE,
                                 !.setupCalls = 0, !.setupCommits = 0]
                   /\ tx' = IF req = "live"
                            THEN [tx EXCEPT !.live = drmModeAtomicFree(n + 1),
                                            !.peak = n + 1]
                            ELSE [tx EXCEPT !.live = n, !.peak = n]

\* The VT hooks run from vt_switcher_poll and the control requests from the
\* VO's control call: on the same thread, between frames.
Outside == pc = "idle"

\* Mutant of MasterAtSetup: the session is set up before master is asked for.
MasterAtSetup_before(m, got) == m

\* release_vt calls crtc_release before drmDropMaster: the teardown runs with
\* the master state the hook was entered with.
MasterAtTeardown(m, dropped) == m

\* acquire_vt calls drmSetMaster before crtc_setup: the setup runs with the
\* master state the call left.
MasterAtSetup(m, got) == m \/ got

\* release_vt: the session is torn down, then master is dropped (the drop
\* can fail).
release_vt ==
    /\ Outside
    /\ \E dropped \in BOOLEAN :
         /\ crtc_release(Cost(dropped), tx.live)
         /\ master' = (master /\ ~dropped)
         /\ vt' = [hook |-> "release",
                   commit |-> ~ReleaseIsNoop /\ sess'.releaseCommits = 1,
                   master |-> MasterAtTeardown(master, dropped),
                   before |-> master, got |-> dropped]
    /\ UNCHANGED <<bo_queue, sbc, vsync_fences, waiting_for_flip, paused, still, p_fb, vsync_info>>
    /\ UNCHANGED <<confVars, pc, drain, locked, fbOf, request, events>>
    /\ UNCHANGED <<released, flips, lastFlip, swapRet, waitErr, holeStep, fbCalls>>

\* acquire_vt: master is acquired (this can fail), then the session is set up.
acquire_vt ==
    /\ Outside
    /\ \E got \in BOOLEAN :
         /\ master' = (master \/ got)
         /\ crtc_setup(MasterAtSetup(master, got), Cost(got), tx.live)
         /\ vt' = [hook |-> "acquire",
                   commit |-> ~SetupIsNoop /\ sess'.setupCommits = 1,
                   master |-> MasterAtSetup(master, got),
                   before |-> master, got |-> got]
    /\ UNCHANGED <<bo_queue, sbc, vsync_fences, waiting_for_flip, paused, still, p_fb, vsync_info>>
    /\ UNCHANGED <<confVars, pc, drain, locked, fbOf, request, events>>
    /\ UNCHANGED <<released, flips, lastFlip, swapRet, waitErr, holeStep, fbCalls>>

(***************************************************************************)
(* Control requests                                                        *)
(***************************************************************************)

\* Mutant of Pause: the pause request resets the timing fields as the
\* resume request does.
Pause_resets ==
    /\ Outside
    /\ paused' = TRUE
    /\ vsync_info' = [last |-> "unset", skipped |-> "zero"]
    /\ UNCHANGED <<bo_queue, sbc, vsync_fences, active, waiting_for_flip, still, p_fb>>
    /\ UNCHANGED <<confVars, pc, drain, envVars, histVars>>

\* drm_egl_control, VOCTRL_PAUSE.
Pause ==
    /\ Outside
    /\ paused' = TRUE
    /\ UNCHANGED <<bo_queue, sbc, vsync_fences, active, waiting_for_flip, still, p_fb, vsync_info>>
    /\ UNCHANGED <<confVars, pc, drain, envVars, histVars>>

\* drm_egl_control, VOCTRL_RESUME: last_queue_display_time = -1 and
\* skipped_vsyncs = 0 (and vsync.ust = vsync.msc = 0, not modelled).
Resume ==
    /\ Outside
    /\ paused' = FALSE
    /\ vsync_info' = [last |-> "unset", skipped |-> "zero"]
    /\ UNCHANGED <<bo_queue, sbc, vsync_fences, active, waiting_for_flip, still, p_fb>>
    /\ UNCHANGED <<confVars, pc, drain, envVars, histVars>>


(***************************************************************************)
(* Frame lifecycle                                                         *)
(***************************************************************************)

\* drm_egl_start_frame: a request is allocated if there is none.
drm_egl_start_frame ==
    /\ pc = "idle"
    /\ sbc < MaxSbc
    /\ pc' = "started"
    /\ IF request = "null"
       THEN \E req \in drmModeAtomicAlloc :
              /\ request' = req
              /\ Fails(Cost(req = "live"))
              /\ LET n == IF req = "live" THEN tx.live + 1 ELSE tx.live
                 IN  tx' = [tx EXCEPT !.live = n, !.peak = n]
       ELSE /\ tx' = [tx EXCEPT !.peak = tx.live]
            /\ UNCHANGED <<request, faults>>
    /\ swapRet' = NoRet
    /\ UNCHANGED <<progVars, confVars, drain, locked, fbOf, saved, master, events>>
    /\ UNCHANGED <<released, flips, lastFlip, waitErr, holeStep, fbCalls, sess, vt>>

\* drm_egl_submit_frame: p->still = frame->still.
drm_egl_submit_frame ==
    /\ pc = "started"
    /\ pc' = "submitted"
    /\ still' \in BOOLEAN
    /\ UNCHANGED <<bo_queue, sbc, vsync_fences, active, waiting_for_flip, paused, p_fb, vsync_info>>
    /\ UNCHANGED <<confVars, drain, envVars, histVars>>

\* A return of drm_egl_swap_buffers, with the call's drain flag d.
Return(how, d) ==
    /\ pc' = "idle"
    /\ drain' = FALSE
    /\ waitErr' = FALSE
    /\ swapRet' = [how |-> how, drain |-> d, werr |-> waitErr]

\* The sequence stamps of the entries of a queue.
Tags(q) == {q[i].sbc : i \in 1..Len(q)}

\* The buffers that have been locked before: those of the queue, those
\* released, and those that carry a framebuffer record (a record is only
\* attached to a buffer that was locked; drm_egl_init locked the buffer of
\* its first frame).
Used == {bo_queue[i].bo : i \in 1..Len(bo_queue)} \cup
        {released[i].bo : i \in 1..Len(released)} \cup
        {b \in Bos : fbOf[b] # "none" \/ b = p_fb}

\* Mutant of LoopCond: drain is not looked at.
LoopCond_nodrain(d, q, lk) ==
    Len(q) > depth \/ ~gbm_surface_has_free_buffers(lk)

\* Mutant of LoopCond: one entry more than the depth is tolerated.
LoopCond_slack(d, q, lk) ==
    d \/ Len(q) > depth + 1 \/ ~gbm_surface_has_free_buffers(lk)

\* The while condition of drm_egl_swap_buffers (lines 631-632).
LoopCond(d, q, lk) ==
    d \/ Len(q) > depth \/ ~gbm_surface_has_free_buffers(lk)

\* Mutant of FlipEntry: the newest entry is flipped to.
FlipEntry_newest(q) == q[Len(q)]

\* The entry chosen by line 644 for queue_flip: bo_queue[1], the second-oldest.
FlipEntry(q) == q[2]

\* The test of line 639: the second-oldest entry has no buffer.
IsHole(q) == q[2].bo = NoBo

\* Mutant of SwapSkips: swap goes on without a session.
SwapSkips_never == FALSE

\* The test of line 616: without an active session swap returns at once.
SwapSkips == ~active

\* Mutant of LockFailed: the result of the lock is not looked at.
LockFailed_never(bo) == FALSE

\* The test of line 624: the producer returned no buffer.
LockFailed(bo) == bo = NoBo

\* drm_egl_swap_buffers up to its loop (lines 610-629): drain is latched,
\* an inactive session returns at once; otherwise the fences are waited on,
\* the front buffer is locked (a failure returns), enqueued with the
\* incremented counter, and a fence is recorded.
drm_egl_swap_buffers ==
    /\ pc = "submitted"
    /\ IF SwapSkips
       THEN /\ Return("inactive", paused \/ still)
            /\ UNCHANGED <<bo_queue, sbc, vsync_fences, locked, faults>>
       ELSE \E bo \in gbm_surface_lock_front_buffer(locked, Used) :
              LET waited == wait_fence(vsync_fences, Len(bo_queue))
              IN  IF LockFailed(bo)
                  THEN /\ vsync_fences' = waited
                       /\ Fails(1)
                       /\ Return("lockfail", paused \/ still)
                       /\ UNCHANGED <<bo_queue, sbc, locked>>
                  ELSE /\ sbc' = sbc + 1
                       /\ bo_queue' = enqueue_bo(bo_queue, bo, sbc')
                       /\ locked' = locked \cup ({bo} \ {NoBo})
                       /\ \E made \in BOOLEAN :
                            /\ Fails(IF hasFenceSync THEN Cost(made) ELSE 0)
                            /\ vsync_fences' = new_fence(waited, sbc', made)
                       /\ drain' = (paused \/ still)
                       /\ pc' = "loop"
                       /\ UNCHANGED <<swapRet, waitErr>>
    /\ UNCHANGED <<active, waiting_for_flip, paused, still, p_fb, vsync_info>>
    /\ UNCHANGED <<confVars, fbOf, request, saved, master, events>>
    /\ UNCHANGED <<released, flips, lastFlip, holeStep, fbCalls, sess, tx, vt>>

\* The while condition is evaluated: the call returns when it is false;
\* otherwise a pending flip is waited for, or the body goes on at line 637.
SwapLoop ==
    /\ pc = "loop"
    /\ IF ~LoopCond(drain, bo_queue, locked)
       THEN Return("cond", drain)
       ELSE /\ pc' = IF waiting_for_flip THEN "wait" ELSE "body"
            /\ UNCHANGED <<swapRet, drain, waitErr>>
    /\ UNCHANGED <<progVars, confVars, envVars>>
    /\ UNCHANGED <<released, flips, lastFlip, holeStep, fbCalls, sess, tx, vt>>

\* wait_on_flip: poll timed out, or reported nothing to read; the while
\* loop of wait_on_flip goes round.
WaitPoll ==
    /\ pc = "wait"
    /\ waiting_for_flip
    /\ UNCHANGED vars

\* What follows wait_on_flip at line 635: swapchain_step.
StepAfterWait ==
    LET st == swapchain_step(bo_queue, locked, released)
    IN  /\ bo_queue' = st.queue
        /\ locked' = st.locked
        /\ released' = st.released
        /\ pc' = "body"

\* wait_on_flip: drmHandleEvent dispatches the first k events; each runs
\* the completion callback, the pending flag is clear and wait_on_flip
\* returns; swapchain_step follows.
WaitFlipped ==
    /\ pc = "wait"
    /\ \E k \in 1..Len(events) :
         events' = SubSeq(events, k + 1, Len(events))
    /\ waiting_for_flip' = drm_pflip_cb(waiting_for_flip)
    /\ vsync_info' = drm_pflip_cb_info(vsync_info)
    /\ waitErr' = FALSE
    /\ StepAfterWait
    /\ UNCHANGED <<sbc, vsync_fences, active, paused, still, p_fb>>
    /\ UNCHANGED <<confVars, drain, fbOf, request, saved, master, faults>>
    /\ UNCHANGED <<flips, lastFlip, swapRet, holeStep, fbCalls, sess, tx, vt>>

\* wait_on_flip: the fd was readable and drmHandleEvent failed; wait_on_flip
\* returns with the pending flag as it was; swapchain_step follows.
WaitError ==
    /\ pc = "wait"
    /\ events # << >>
    /\ Fails(1)
    /\ waitErr' = TRUE
    /\ StepAfterWait
    /\ UNCHANGED <<sbc, vsync_fences, active, waiting_for_flip, paused, still, p_fb, vsync_info>>
    /\ UNCHANGED <<confVars, drain, fbOf, request, saved, master, events>>
    /\ UNCHANGED <<flips, lastFlip, swapRet, holeStep, fbCalls, sess, tx, vt>>

\* Mutant of PendingAfterCommit: a refused commit leaves the flag as it was.
PendingAfterCommit_sticky(w, ok) == w \/ ok

\* Line 509: p->waiting_for_flip = !ret, whatever the flag was.
PendingAfterCommit(w, ok) == ok

\* queue_flip(frame): the frame's framebuffer becomes p->fb (registered on
\* first use), the request in the slot is committed non-blocking, the pending
\* flag becomes "the commit was accepted", and the request is freed and
\* replaced by a newly allocated one.
queue_flip(frame) ==
    \E added \in BOOLEAN, req \in drmModeAtomicAlloc :
      LET fbs == update_framebuffer_from_bo(fbOf, frame.bo, added)
          subs == IF request = "live" THEN tx.subs + 1 ELSE 0
          freed == IF request = "live" THEN drmModeAtomicFree(tx.live) ELSE tx.live
          n == IF req = "live" THEN freed + 1 ELSE freed
      IN  \E ok \in drmModeAtomicCommit(request, master, fbs[frame.bo]) :
            /\ Fails((IF fb_cached(fbOf, frame.bo) THEN 0 ELSE Cost(added))
                     + Cost(req = "live"))
            /\ fbOf' = fbs
            /\ fbCalls' = drmModeAddFB2(fbCalls, fbOf, frame.bo, added)
            /\ p_fb' = frame.bo
            /\ waiting_for_flip' = PendingAfterCommit(waiting_for_flip, ok)
            /\ events' = IF ok THEN Append(events, frame.sbc) ELSE events
            /\ flips' = IF ok THEN Append(flips, frame.sbc) ELSE flips
            /\ lastFlip' = [sbc |-> frame.sbc, bo |-> frame.bo,
                            pending |-> waiting_for_flip, ok |-> ok,
                            fb |-> fbs[frame.bo], subs |-> subs]
            /\ request' = req
            /\ tx' = [tx EXCEPT !.live = n,
                                !.peak = IF n > tx.live THEN n ELSE tx.live,
                                !.subs = 0]

\* The rest of the loop body (lines 637-644): with at most one entry the
\* loop is left; a hole at the second position makes swapchain_step run and
\* the loop continue; otherwise the second-oldest entry is flipped to.
SwapBody ==
    /\ pc = "body"
    /\ IF Len(bo_queue) <= 1
       THEN /\ Return("break", drain)
            /\ UNCHANGED <<bo_queue, locked, released, holeStep, fbCalls>>
            /\ UNCHANGED <<fbOf, p_fb, waiting_for_flip, events, flips, lastFlip, request, faults, tx>>
       ELSE IF IsHole(bo_queue)
       THEN LET st == swapchain_step(bo_queue, locked, released)
            IN  /\ bo_queue' = st.queue
                /\ locked' = st.locked
                /\ released' = st.released
                /\ holeStep' = [seen |-> TRUE, hole |-> bo_queue[2].sbc,
                                head |-> bo_queue[1].sbc,
                                retired |-> Tags(bo_queue) \ Tags(st.queue),
                                next |-> IF Len(st.queue) > 0 THEN st.queue[1].sbc ELSE 0]
                /\ pc' = "loop"
                /\ UNCHANGED <<swapRet, drain, waitErr, fbCalls>>
                /\ UNCHANGED <<fbOf, p_fb, waiting_for_flip, events, flips, lastFlip, request, faults, tx>>
       ELSE /\ queue_flip(FlipEntry(bo_queue))
            /\ pc' = "loop"
            /\ UNCHANGED <<bo_queue, locked, released, holeStep, swapRet, drain, waitErr>>
    /\ UNCHANGED <<sbc, vsync_fences, active, paused, still, vsync_info>>
    /\ UNCHANGED <<confVars, saved, master>>
    /\ UNCHANGED <<sess, vt>>

(***************************************************************************)
(* Teardown                                                                *)
(***************************************************************************)

\* The loop of drm_egl_uninit (lines 672-674).
RECURSIVE ReleaseAll(_)
ReleaseAll(st) ==
    IF Len(st.queue) # 0
    THEN ReleaseAll(swapchain_step(st.queue, st.locked, st.released))
    ELSE st

\* drm_egl_uninit: the live request is committed and freed, the session is
\* released, every queued buffer is handed back.
drm_egl_uninit ==
    /\ pc = "idle"
    /\ pc' = "dead"
    /\ request' = "freed"
    /\ crtc_release(0, IF request = "live" THEN drmModeAtomicFree(tx.live) ELSE tx.live)
    /\ LET st == ReleaseAll([queue |-> bo_queue, locked |-> locked,
                             released |-> released])
       IN  /\ bo_queue' = st.queue
           /\ locked' = st.locked
           /\ released' = st.released
    /\ UNCHANGED <<sbc, vsync_fences, waiting_for_flip, paused, still, p_fb, vsync_info>>
    /\ UNCHANGED <<confVars, drain, fbOf, master, events>>
    /\ fbCalls' = gbm_surface_destroy(fbCalls, fbOf, Bos)
    /\ UNCHANGED <<flips, lastFlip, swapRet, waitErr, holeStep, vt>>

Next ==
    \/ drm_egl_start_frame
    \/ drm_egl_submit_frame
    \/ drm_egl_swap_buffers
    \/ SwapLoop
    \/ WaitPoll
    \/ WaitFlipped
    \/ WaitError
    \/ SwapBody
    \/ release_vt
    \/ acquire_vt
    \/ Pause
    \/ Resume
    \/ drm_egl_uninit

Spec == Init /\ [][Next]_vars


\* The program keeps running inside drm_egl_swap_buffers, and the kernel
\* delivers the completion event of every flip commit it accepted.
FairSpec ==
    /\ Spec
    /\ WF_vars(SwapLoop)
    /\ WF_vars(SwapBody)
    /\ WF_vars(WaitFlipped)

(***************************************************************************)
(* probe_gbm_format on its own: every option, every advertised list of up  *)
(* to MaxFormats formats.  The rest of the engine is not running yet.       *)
(***************************************************************************)

FormatLists == UNION {[1..n -> PlaneFormats] : n \in 0..MaxFormats}

InitProbe ==
    /\ \E opt \in DrmFormats :
         \/ \E fl \in FormatLists : probe = ProbeEntry(opt, fl)
         \/ probe = [ProbeEntry(opt, << >>) EXCEPT !.plane = "null"]
    /\ pc = "init"
    /\ bo_queue = << >>
    /\ locked = {}
    /\ fbOf = [x \in Bos |-> "none"]
    /\ p_fb = NoBo
    /\ sbc = 0
    /\ vsync_fences = << >>
    /\ active = FALSE
    /\ waiting_for_flip = FALSE
    /\ paused = FALSE
    /\ still = FALSE
    /\ vsync_info = ZeroVsyncInfo
    /\ depth \in 1..MaxDepth
    /\ hasFenceSync = FALSE
    /\ fence = NoFence
    /\ drain = FALSE
    /\ request = "null"
    /\ saved = FALSE
    /\ faults = 0
    /\ master = TRUE
    /\ events = << >>
    /\ released = << >>
    /\ flips = << >>
    /\ lastFlip = NoFlip
    /\ swapRet = NoRet
    /\ waitErr = FALSE
    /\ holeStep = NoHole
    /\ sess = NoSess
    /\ tx = NoTx
    /\ vt = NoVt
    /\ fbCalls = NoFbCalls

\* One pass of the loop of probe_gbm_format (lines 708-714).
ProbeLoop ==
    /\ pc = "init"
    /\ probe.at = "loop"
    /\ probe.plane = "ok"
    /\ probe.i < Len(probe.formats)
    /\ LET f == probe.formats[probe.i + 1]
       IN  probe' = [probe EXCEPT
                       !.i = @ + 1,
                       !.have_argb = IF f = argb_format(probe.opt) THEN TRUE ELSE @,
                       !.have_xrgb = IF f # argb_format(probe.opt)
                                        /\ f = xrgb_format(probe.opt) THEN TRUE ELSE @]
    /\ UNCHANGED <<progVars, depth, hasFenceSync, fence, pc, drain, envVars, histVars>>

\* The end of the loop: the selection and the return (lines 716-728).
ProbeSelect ==
    /\ pc = "init"
    /\ probe.at = "loop"
    /\ probe.plane = "ok"
    /\ ~(probe.i < Len(probe.formats))
    /\ LET sel == probe_select(probe.have_argb, probe.have_xrgb,
                               argb_format(probe.opt), xrgb_format(probe.opt),
                               probe.gbm_format)
       IN  probe' = [probe EXCEPT !.gbm_format = sel.gbm_format,
                                  !.result = sel.result, !.at = "done"]
    /\ UNCHANGED <<progVars, depth, hasFenceSync, fence, pc, drain, envVars, histVars>>

\* Line 708 with drmplane NULL: the result of drmModeGetPlane is not
\* tested, and reading drmplane->count_formats ends the process.
ProbeNoPlane ==
    /\ pc = "init"
    /\ probe.at = "loop"
    /\ probe.plane = "null"
    /\ probe' = [probe EXCEPT !.at = "segv"]
    /\ UNCHANGED <<progVars, depth, hasFenceSync, fence, pc, drain, envVars, histVars>>

NextProbe ==
    \/ ProbeLoop
    \/ ProbeSelect
    \/ ProbeNoPlane

SpecProbe == InitProbe /\ [][NextProbe]_vars


(***************************************************************************)
(* wait_fence on its own, one statement at a time, from every fence FIFO   *)
(* of up to MaxFences fences and every queue of up to NumBos entries       *)
(* (the running program only calls it with at most depth fences).          *)
(***************************************************************************)

\* Fence FIFOs: fences tagged with increasing frame numbers.
FenceLists ==
    {f \in UNION {[1..n -> 1..MaxSbc] : n \in 0..MaxFences} :
        \A i, j \in 1..Len(f) : i < j => f[i] < f[j]}

\* Buffer queues of 0..NumBos entries.
FenceQueues == {[i \in 1..n |-> Frame(i, i)] : n \in 0..NumBos}

InitFence ==
    /\ vsync_fences \in FenceLists
    /\ bo_queue \in FenceQueues
    /\ fence = [NoFence EXCEPT !.at = "test", !.input = vsync_fences]
    /\ pc = "wait_fence"
    /\ locked = {bo_queue[i].bo : i \in 1..Len(bo_queue)}
    /\ fbOf = [x \in Bos |-> IF x = 1 THEN "ok" ELSE "none"]
    /\ p_fb = 1
    /\ sbc = MaxSbc
    /\ active = TRUE
    /\ waiting_for_flip = FALSE
    /\ paused = FALSE
    /\ still = FALSE
    /\ vsync_info = NoVsyncInfo
    /\ depth = MaxDepth
    /\ hasFenceSync = TRUE
    /\ probe = Probed
    /\ drain = FALSE
    /\ request = "live"
    /\ saved = TRUE
    /\ faults = 0
    /\ master = TRUE
    /\ events = << >>
    /\ released = << >>
    /\ flips = << >>
    /\ lastFlip = NoFlip
    /\ swapRet = NoRet
    /\ waitErr = FALSE
    /\ holeStep = NoHole
    /\ sess = [NoSess EXCEPT !.setupCalls = 1, !.setupCommits = 1]
    /\ tx = [NoTx EXCEPT !.live = 1, !.peak = 1]
    /\ vt = NoVt
    /\ fbCalls = [NoFbCalls EXCEPT ![1] = [add |-> 1, made |-> 1, rm |-> 0]]

\* The while test (line 580): into the body, or out of the function.
FenceTest ==
    /\ pc = "wait_fence"
    /\ fence.at = "test"
    /\ fence' = [fence EXCEPT !.at = IF wait_fence_cond(vsync_fences, Len(bo_queue))
                                     THEN "wait" ELSE "done"]
    /\ UNCHANGED <<progVars, depth, hasFenceSync, probe, pc, drain, envVars, histVars>>

\* Line 581: ClientWaitSync on vsync_fences[0] with a timeout of one second;
\* it returns signalled or timed out, and the result is not looked at.
ClientWaitSync ==
    /\ pc = "wait_fence"
    /\ fence.at = "wait"
    /\ \E signalled \in BOOLEAN :
         fence' = [fence EXCEPT !.at = "delete",
                                !.waited = Append(@, vsync_fences[1]),
                                !.timeouts = IF signalled THEN @ ELSE @ + 1]
    /\ UNCHANGED <<progVars, depth, hasFenceSync, probe, pc, drain, envVars, histVars>>

\* Lines 582-583: DeleteSync of vsync_fences[0] and its removal from the
\* array (MP_TARRAY_REMOVE_AT index 0).
DeleteSync ==
    /\ pc = "wait_fence"
    /\ fence.at = "delete"
    /\ fence' = [fence EXCEPT !.at = "test", !.deleted = Append(@, vsync_fences[1])]
    /\ vsync_fences' = Tail(vsync_fences)
    /\ UNCHANGED <<bo_queue, sbc, active, waiting_for_flip, paused, still, p_fb, vsync_info>>
    /\ UNCHANGED <<depth, hasFenceSync, probe, pc, drain, envVars, histVars>>

NextFence ==
    \/ FenceTest
    \/ ClientWaitSync
    \/ DeleteSync

\* The function is straight-line code: it keeps running, and ClientWaitSync
\* returns after its timeout at the latest.
SpecFence == InitFence /\ [][NextFence]_vars /\ WF_vars(NextFence)

(***************************************************************************)
(* Claims                                                                  *)
(***************************************************************************)

InSwap == pc \in {"loop", "wait", "body"}
Enqueued == swapRet.how \in {"cond", "break"}

\* Inside wait_on_flip the kernel owes at least one completion event.
WaitHasEvent == (pc = "wait") => events # << >>

\* C1: buffers are handed back to the producer in the order in which they
\* were enqueued: the i-th release is the frame stamped i, and after uninit
\* every enqueued frame has been released.
C1_FifoRelease ==
    /\ \A i \in 1..Len(released) : released[i].sbc = i
    /\ (pc = "dead") => Len(released) = sbc

C1_Witness ==
    pc = "dead" /\ Len(released) = MaxSbc /\ Len(flips) >= 2

\* C2 (as claimed): queue_flip is only called while waiting_for_flip is
\* false.  Refuted: after wait_on_flip returns on a drmHandleEvent error the
\* flag is still set when line 644 calls queue_flip.
C2_NoFlipWhilePending ==
    lastFlip.sbc # 0 => ~lastFlip.pending

\* C3 (as claimed): a swap call made in drain mode returns, however it
\* returns, with at most one queue entry and no flip pending.
C3_DrainReturnsDrained ==
    (pc = "idle" /\ swapRet.how # "none" /\ swapRet.drain)
        => (Len(bo_queue) <= 1 /\ ~waiting_for_flip)

\* C3 (amended): a swap call made in drain mode that enqueued a buffer
\* returns through the loop's break with exactly one queue entry, and with
\* no flip pending unless its last wait_on_flip returned on a dispatch error.
C3_DrainReturnsAfterEnqueue ==
    (pc = "idle" /\ Enqueued /\ swapRet.drain)
        => /\ swapRet.how = "break"
           /\ Len(bo_queue) = 1
           /\ (waiting_for_flip => swapRet.werr)

C3_Witness ==
    /\ pc = "idle" /\ swapRet.how = "break" /\ swapRet.drain
    /\ Len(bo_queue) = 1 /\ Len(released) >= 3 /\ ~waiting_for_flip

\* C4: the queue never holds more than depth + 1 entries, and when swap
\* returns after enqueueing it holds at most depth entries.
C4_BoundedQueue ==
    /\ depth >= 1
    /\ Len(bo_queue) <= depth + 1
    /\ (pc = "idle" /\ Enqueued) => Len(bo_queue) <= depth

C4_Witness ==
    /\ pc = "idle" /\ swapRet.how = "cond" /\ depth = MaxDepth
    /\ Len(bo_queue) = depth /\ Len(released) >= 1

\* C5 (as claimed): at every observation point the fence FIFO holds at most
\* as many fences as the queue holds entries.  Refuted in the swap call
\* that switches to drain mode: the retire loop shortens the queue to one
\* entry and leaves both fences in the FIFO.
C5_FenceBound ==
    (pc # "dead") => Len(vsync_fences) <= Len(bo_queue)

\* C6: between two crtc_release calls at most one modeset commit is issued
\* and a repeated crtc_setup returns success; between two crtc_setup calls
\* at most one restoring commit is issued.
C6_SessionIdempotent ==
    /\ sess.setupCommits <= 1
    /\ sess.releaseCommits <= 1
    /\ (sess.setupCalls >= 2 => sess.setupRet)

C6_Witness ==
    sess.setupCalls >= 2 /\ sess.setupCommits = 1 /\ active

\* C7: the frames whose flip commit was accepted are strictly increasing in
\* submission order: none is followed by an earlier one, none occurs twice.
C7_FlipOrder ==
    \A i \in 1..Len(flips) : \A j \in 1..Len(flips) :
        i < j => flips[i] < flips[j]

C7_Witness ==
    Len(flips) >= 3

\* C8: when swap returns after enqueueing frame n, the queue holds at most
\* depth entries, and for n > depth frame n - depth has been released.
C8_OldestRetired ==
    (pc = "idle" /\ Enqueued)
        => /\ Len(bo_queue) <= depth
           /\ (sbc > depth => \E i \in 1..Len(released) : released[i].sbc = sbc - depth)

C8_Witness ==
    /\ pc = "idle" /\ swapRet.how = "cond" /\ ~swapRet.drain
    /\ depth = 2 /\ sbc = 3 /\ Len(released) = 1 /\ released[1].sbc = 1

\* C10 (as claimed): every swap call returns.  Refuted under FairSpec: a
\* kernel that refuses every flip commit keeps the loop re-submitting the
\* same entry.
C10_SwapReturns ==
    InSwap ~> (pc = "idle")

StartedOnce == pc # "idle" \/ swapRet.how # "none"

\* C11 (as claimed): from the end of init until uninit exactly one atomic
\* request is live, at every moment.  Refuted: none exists before the first
\* start_frame, and crtc_setup and crtc_release hold a second one.
C11_ExactlyOneTx ==
    (pc # "dead") => (tx.live = 1 /\ tx.peak = 1)

\* C11 (amended): until uninit the slot atomic_ctx->request holds at most one
\* request and every other live request is one that crtc_setup leaked on its
\* connector-property failure; the slot is filled from the first start_frame
\* on unless an allocation failed; during a call at most one request beyond
\* the slot's and the leaked ones is live (the temporary one of crtc_setup or
\* crtc_release).
C11_TxSlot ==
    (pc # "dead") =>
        /\ request \in {"null", "live"}
        /\ tx.live = (IF request = "live" THEN 1 ELSE 0) + tx.leaked
        /\ tx.peak <= 2 + tx.leaked
        /\ tx.leaked <= faults
        /\ (faults = 0 /\ StartedOnce) => request = "live"
        /\ (faults = 0 /\ ~StartedOnce) => request = "null"

C11_Witness ==
    /\ pc = "idle" /\ lastFlip.ok /\ request = "live" /\ active
    /\ vt.hook = "acquire" /\ vt.commit /\ tx.peak = 2 /\ tx.live = 1

\* C12 (as claimed): no flip commit is submitted for a frame whose
\* framebuffer record has no valid id.  Refuted: queue_flip puts the id of
\* whatever record update_framebuffer_from_bo left in p->fb into the request
\* and commits it.
C12_NoFlipWithBadFb ==
    lastFlip.sbc # 0 => lastFlip.fb = "ok"

\* C13 (as claimed): after a crtc_setup that reported failure the session is
\* not Active.  Refuted: p->active is set at line 346, before any step can
\* fail, and no failure path clears it.
C13_FailedSetupInactive ==
    (sess.setupCalls >= 1 /\ ~sess.setupRet) => ~active

\* C14 (as claimed): every session commit triggered by a VT hook is issued
\* while master is held.  Refuted: acquire_vt only logs a failed drmSetMaster
\* and runs crtc_setup all the same.
C14_CommitsUnderMaster ==
    vt.commit => vt.master

\* C14 (amended): release_vt tears the session down before it drops master,
\* so its restoring commit is issued with the master state the hook was
\* entered with; acquire_vt asks for master before it sets the session up,
\* so its modeset commit is issued with master held exactly when it was held
\* already or drmSetMaster succeeded; the teardown of release_vt leaves the
\* pending flag and the undelivered completion events as they were.
C14_MasterBrackets ==
    [][/\ (vt'.hook = "release" /\ vt'.commit) => (vt'.master = vt'.before)
       /\ (vt'.hook = "acquire" /\ vt'.commit) => (vt'.master = (vt'.before \/ vt'.got))
       /\ (vt'.hook = "acquire" /\ vt'.commit /\ sess'.setupRet) => master'
       /\ (active /\ ~active' /\ pc' = "idle")
            => (vt'.hook = "release" /\ UNCHANGED <<waiting_for_flip, events, bo_queue>>)
      ]_vars

C14_Witness ==
    /\ vt.hook = "acquire" /\ vt.commit /\ vt.master /\ ~vt.before /\ vt.got
    /\ waiting_for_flip /\ active /\ sess.setupRet

Advertised == {probe.formats[i] : i \in 1..Len(probe.formats)}

\* C15: when probe_gbm_format has returned: if the plane advertises the
\* alpha format it is selected; if it advertises the opaque format and not
\* the alpha one, the opaque format is selected; if it advertises neither,
\* the call fails and p->gbm_format is left unset.
C15_FormatSelection ==
    (probe.at = "done") =>
        LET X == argb_format(probe.opt)
            Y == xrgb_format(probe.opt)
        IN  /\ X \in Advertised => (probe.result /\ probe.gbm_format = X)
            /\ (Y \in Advertised /\ X \notin Advertised)
                 => (probe.result /\ probe.gbm_format = Y)
            /\ (X \notin Advertised /\ Y \notin Advertised)
                 => (~probe.result /\ probe.gbm_format = "none")

C15_Witness ==
    /\ probe.at = "done" /\ Len(probe.formats) = MaxFormats
    /\ probe.formats[1] = xrgb_format(probe.opt)
    /\ probe.formats[MaxFormats] = argb_format(probe.opt)
    /\ probe.gbm_format = argb_format(probe.opt) /\ probe.result

\* C16 (as claimed): when a buffer goes back to the producer inside swap,
\* the fence recorded for its frame has been removed by wait_fence: no
\* released frame's fence is still in the fence FIFO.  Refuted in the swap
\* call that switches to drain mode.
C16_FenceBeforeRelease ==
    (pc # "dead") =>
        \A i \in 1..Len(released) : \A j \in 1..Len(vsync_fences) :
            vsync_fences[j] # released[i].sbc

\* A step of the swap loop in which queue_flip was called (line 644).
FlipStep == pc = "body" /\ pc' = "loop" /\ Len(bo_queue') = Len(bo_queue)

\* The number of requests the slot holds.
InSlot(req) == IF req = "live" THEN 1 ELSE 0

\* C17 (as claimed): after every queue_flip call the pending flag is true
\* exactly when the kernel accepted the commit, the submitted request has
\* been freed and the slot holds a fresh request that has not been
\* submitted, so no request is submitted twice.  Refuted when
\* drmModeAtomicAlloc fails at line 512: the slot is left empty.
C17_FlipReplacesRequest ==
    [][FlipStep =>
         /\ waiting_for_flip' = lastFlip'.ok
         /\ lastFlip'.subs <= 1
         /\ request' = "live"
         /\ tx'.subs = 0
         /\ tx'.live = tx.live - InSlot(request) + 1
      ]_vars

\* C17 (amended): after every queue_flip call the pending flag is true
\* exactly when the kernel accepted the commit; the request that was
\* submitted had not been submitted before and has been freed; the slot
\* holds a newly allocated request that has not been submitted, except
\* when that allocation failed, and then the slot is empty.
C17_FlipConsumesRequest ==
    [][FlipStep =>
         /\ waiting_for_flip' = lastFlip'.ok
         /\ (lastFlip'.ok <=> Len(flips') = Len(flips) + 1)
         /\ lastFlip'.subs = InSlot(request)
         /\ lastFlip'.subs <= 1
         /\ tx'.subs = 0
         /\ tx'.live = tx.live - InSlot(request) + InSlot(request')
         /\ tx'.leaked = tx.leaked
         /\ (request' = "live" \/ (request' = "null" /\ faults' > faults))
      ]_vars

\* A queue_flip call has committed a request and failed to allocate its
\* replacement: the slot is empty and the committed request is not live.
C17_Witness ==
    /\ pc = "loop" /\ lastFlip.sbc # 0 /\ lastFlip.subs = 1
    /\ request = "null" /\ tx.live = tx.leaked /\ tx.subs = 0
    /\ waiting_for_flip = lastFlip.ok

\* C18: a crtc_release call on an Active session leaves the session
\* Inactive whatever fails on the way, and issues its restoring commit only
\* when a prior state had been saved.
C18_TeardownCompletes ==
    [][/\ (sess'.releaseCalls >= 1 /\ sess'.setupCalls = 0) => ~active'
       /\ (active /\ sess'.releaseCalls >= 1 /\ sess'.setupCalls = 0)
            => /\ sess'.relSaved = saved
               /\ (~saved => (sess'.releaseCommits = 0 /\ tx'.peak = tx'.live
                              /\ UNCHANGED saved))
      ]_vars

C18_Witness ==
    /\ ~active /\ sess.releaseCalls = 1 /\ sess.releaseCommits = 0
    /\ sess.relSaved /\ saved /\ waiting_for_flip /\ pc = "idle"

\* C19: a swap call on an Inactive session returns at once and changes
\* nothing: queue, locked buffers, counter, fences, pending flag, flips and
\* requests stay as they were; and the session only becomes Active again in
\* the crtc_setup of acquire_vt.
C19_InactiveSwapIsNoop ==
    [][/\ (pc = "submitted" /\ ~active)
            => /\ pc' = "idle" /\ swapRet'.how = "inactive"
               /\ UNCHANGED <<bo_queue, locked, sbc, vsync_fences, waiting_for_flip>>
               /\ UNCHANGED <<flips, lastFlip, events, released, request, fbOf, p_fb>>
       /\ (~active /\ active') => (vt'.hook = "acquire" /\ sess'.setupCalls >= 1)
      ]_vars

C19_Witness ==
    /\ pc = "idle" /\ swapRet.how = "inactive" /\ ~active /\ vt.hook = "release"
    /\ waiting_for_flip /\ Len(bo_queue) = 2 /\ Len(vsync_fences) = 2

\* C20: a swap call whose front-buffer lock fails returns without appending
\* to the queue (no entry without a buffer either), without advancing the
\* counter, recording a fence, issuing a flip or touching the pending flag.
C20_LockFailureDropsFrame ==
    [][/\ (pc = "submitted" /\ swapRet'.how = "lockfail")
            => /\ pc' = "idle" /\ active
               /\ UNCHANGED <<bo_queue, locked, sbc, waiting_for_flip>>
               /\ UNCHANGED <<flips, lastFlip, events, released, request, fbOf, p_fb>>
               /\ \E k \in 0..Len(vsync_fences) :
                     vsync_fences' = SubSeq(vsync_fences, k + 1, Len(vsync_fences))
       /\ \A i \in 1..Len(bo_queue') : bo_queue'[i].bo # NoBo
       /\ (pc = "submitted" /\ pc' = "loop")
            => (sbc' = sbc + 1 /\ Len(bo_queue') = Len(bo_queue) + 1
                /\ bo_queue'[Len(bo_queue')].bo \notin locked)
      ]_vars

C20_Witness ==
    /\ pc = "idle" /\ swapRet.how = "lockfail" /\ active
    /\ waiting_for_flip /\ Len(bo_queue) = 2 /\ sbc = 3

\* The steps that may write the vsync state.
CallbackStep == pc = "wait" /\ Len(events') < Len(events)
ResumeStep == pc = "idle" /\ pc' = "idle" /\ paused' = FALSE /\ UNCHANGED <<active, sess>>
PauseStep == pc = "idle" /\ pc' = "idle" /\ paused' = TRUE /\ UNCHANGED <<active, sess>>
EnqueueStep == pc = "submitted" /\ pc' = "loop"

\* C21 (as claimed): the sequence counter, the last display time, the
\* skipped-vsync count and the pending flag change only in the completion
\* callback and in the pause and resume requests.  Refuted: enqueue_bo
\* advances the counter and queue_flip assigns the pending flag.
C21_VsyncWriters ==
    [][(sbc' # sbc \/ waiting_for_flip' # waiting_for_flip \/ vsync_info' # vsync_info)
          => (CallbackStep \/ ResumeStep \/ PauseStep)
      ]_vars

\* C21 (amended): the sequence counter is changed only by enqueue_bo, which
\* adds one; the pending flag only by queue_flip, which sets it to the
\* commit's result, and by the completion callback, which clears it; the
\* last display time and the skipped-vsync count only by the completion
\* callback and by the resume request, which resets them; the pause request
\* changes none of the four.
C21_VsyncWritersAmended ==
    [][/\ sbc' # sbc => (EnqueueStep /\ sbc' = sbc + 1)
       /\ waiting_for_flip' # waiting_for_flip
            => \/ (FlipStep /\ waiting_for_flip' = lastFlip'.ok)
               \/ (CallbackStep /\ ~waiting_for_flip')
       /\ vsync_info' # vsync_info
            => \/ (CallbackStep /\ vsync_info' = drm_pflip_cb_info(vsync_info))
               \/ (ResumeStep /\ vsync_info' = [last |-> "unset", skipped |-> "zero"])
       /\ PauseStep => UNCHANGED <<sbc, waiting_for_flip, vsync_info>>
       /\ CallbackStep => vsync_info'.last = "flip"
      ]_vars

C21_Witness ==
    /\ pc = "idle" /\ paused /\ vsync_info.last = "flip" /\ sbc = 3
    /\ ~waiting_for_flip /\ Len(flips) = 2 /\ swapRet.how = "break"

(***************************************************************************)
(* C22                                                                     *)
(***************************************************************************)

\* C22 (as stated): for each buffer object at most one kernel framebuffer is
\* created, and drmModeRmFB is called for it exactly as often as a
\* framebuffer was successfully created: not before the producer destroys
\* the buffer, once at that point if the creation succeeded, and never for
\* a buffer whose framebuffer was not created.
C22_FbOnce ==
    \A b \in Bos :
        /\ fbCalls[b].add <= 1
        /\ fbCalls[b].made <= fbCalls[b].add
        /\ pc # "dead" => fbCalls[b].rm = 0
        /\ pc = "dead" => fbCalls[b].rm = fbCalls[b].made

\* C22 (amended): for each buffer object the add-framebuffer call is made at
\* most once, whether or not it succeeded (the record is cached either
\* way); drmModeRmFB is not called before the producer destroys the buffer,
\* and then exactly once for every buffer that carries a record, also for a
\* record whose creation failed, and not at all for a buffer without one.
C22_FbOnceAmended ==
    \A b \in Bos :
        /\ fbCalls[b].add <= 1
        /\ fbCalls[b].made <= fbCalls[b].add
        /\ fbCalls[b].add = (IF fbOf[b] # "none" THEN 1 ELSE 0)
        /\ fbCalls[b].made = (IF fbOf[b] = "ok" THEN 1 ELSE 0)
        /\ pc # "dead" => fbCalls[b].rm = 0
        /\ pc = "dead" => fbCalls[b].rm = fbCalls[b].add

\* C22 witness: after uninit, a buffer that was flipped to more than once got
\* one framebuffer and one remove call, and another buffer never got one.
C22_Witness ==
    /\ pc = "dead"
    /\ \E b \in Bos : /\ fbCalls[b] = [add |-> 1, made |-> 1, rm |-> 1]
                      /\ b # 1
                      /\ Cardinality({i \in 1..Len(released) : released[i].bo = b}) >= 2
    /\ \E b \in Bos : fbCalls[b] = [add |-> 0, made |-> 0, rm |-> 0]

(***************************************************************************)
(* C23                                                                     *)
(***************************************************************************)

\* The safety half of C23, at every step of wait_fence: the fences deleted
\* so far are the first ones of the FIFO it was called with, in order, and
\* what is left is the rest; the fences waited on are the deleted ones plus,
\* between the wait and the delete, the front one; a fence was only deleted
\* when the count before the deletion was at least the queue length; on
\* return the FIFO is empty or shorter than the queue, and is what the
\* loop as a whole computes.
WaitFenceSteps ==
    LET n == Len(fence.input)
        d == Len(fence.deleted)
    IN  /\ d <= n
        /\ fence.deleted = SubSeq(fence.input, 1, d)
        /\ vsync_fences = SubSeq(fence.input, d + 1, n)
        /\ fence.waited = SubSeq(fence.input, 1, Len(fence.waited))
        /\ Len(fence.waited) = (IF fence.at = "delete" THEN d + 1 ELSE d)
        /\ d > 0 => n - d + 1 >= Len(bo_queue)
        /\ fence.at = "done" =>
             /\ (Len(vsync_fences) = 0 \/ Len(vsync_fences) < Len(bo_queue))
             /\ vsync_fences = wait_fence(fence.input, Len(bo_queue))
             /\ (n < Len(bo_queue) => d = 0)

\* C23: wait_fence terminates from every fence FIFO and queue (an empty FIFO
\* included); it removes fences only from the front, one at a time, each
\* waited on before it is deleted; on return the FIFO is empty or holds
\* strictly fewer fences than the queue has entries; and no fence is removed
\* when the fence count is already below the queue length.
C23_WaitFence ==
    /\ [](fence.at # "off" => WaitFenceSteps)
    /\ <>(fence.at = "done")

\* C23 witness: wait_fence has returned after deleting two of three fences
\* against a queue of two entries, one of the waits having timed out.
C23_Witness ==
    /\ fence.at = "done"
    /\ Len(fence.input) = 3 /\ Len(bo_queue) = 2
    /\ Len(fence.deleted) = 2 /\ Len(vsync_fences) = 1
    /\ fence.timeouts = 1

(***************************************************************************)
(* C24                                                                     *)
(***************************************************************************)

\* The completion event of an accepted flip to a frame enqueued after frame
\* n has been dispatched.
FlippedPast(n) ==
    \E i \in 1..Len(flips) :
        /\ flips[i] > n
        /\ \A j \in 1..Len(events) : events[j] # flips[i]

\* C24: before uninit, every buffer handed back to the producer was handed
\* back after the completion event of an accepted flip to a later-enqueued
\* buffer had been dispatched, also when wait_on_flip returned on a
\* drmHandleEvent error.  Refuted: after such a return swapchain_step
\* releases the head although the event of the flip that replaces it is
\* still undelivered.
C24_ScanoutSafety ==
    pc # "dead" => \A i \in 1..Len(released) : FlippedPast(released[i].sbc)

\* The same without collaborator failures (C24 holds as long as
\* drmHandleEvent does not fail).
C24_ScanoutSafetyNoFault ==
    (pc # "dead" /\ faults = 0) => \A i \in 1..Len(released) : FlippedPast(released[i].sbc)

(***************************************************************************)
(* C25                                                                     *)
(***************************************************************************)

\* The buffers of the queue's entries.
QueueBos == {bo_queue[i].bo : i \in 1..Len(bo_queue)}

\* Every frame enqueued so far (1..sbc) is either in the queue or among the
\* released ones, never both and never twice; the buffers the producer has
\* locked are exactly those of the queue, each at one position; after uninit
\* the queue is empty and no buffer is left locked.
Conserved ==
    /\ \A i, j \in 1..Len(bo_queue) : i # j => bo_queue[i].bo # bo_queue[j].bo
    /\ locked = QueueBos
    /\ Tags(bo_queue) \cup {released[i].sbc : i \in 1..Len(released)} = 1..sbc
    /\ Len(bo_queue) + Len(released) = sbc
    /\ pc = "dead" => (bo_queue = << >> /\ locked = {} /\ Len(released) = sbc)

\* A step that hands buffers back hands back entries that were at the head
\* of the queue, in order, and removes exactly those from the queue; a step
\* that locks a buffer locks one that was free and appends it.
HandedBackFromQueue ==
    /\ released' # released =>
         \E k \in 1..Len(bo_queue) :
            /\ released' = released \o SubSeq(bo_queue, 1, k)
            /\ bo_queue' = SubSeq(bo_queue, k + 1, Len(bo_queue))
            /\ locked' = locked \ {bo_queue[i].bo : i \in 1..k}
    /\ locked' # locked /\ released' = released =>
         \E b \in Bos \ locked :
            /\ locked' = locked \cup {b}
            /\ bo_queue' = Append(bo_queue, Frame(b, sbc'))

\* C25: buffer conservation.  Every buffer locked from the producer is in
\* the queue exactly once until it is released, is released exactly once and
\* only while it is in the queue, and after uninit the queue is empty with
\* every locked buffer released.
C25_Conservation ==
    /\ []Conserved
    /\ [][HandedBackFromQueue]_vars

\* C25 witness: uninit has run after MaxSbc frames, all of them released,
\* one buffer having gone through the queue twice.
C25_Witness ==
    /\ pc = "dead" /\ sbc = MaxSbc /\ Len(released) = MaxSbc
    /\ \E i, j \in 1..Len(released) : i < j /\ released[i].bo = released[j].bo

(***************************************************************************)
(* C26                                                                     *)
(***************************************************************************)

\* C26: from the end of init until uninit, p->fb is the record of a buffer
\* that is in the queue, at the head or at the second position.  Refuted:
\* when swapchain_step runs after wait_on_flip returned on a dispatch error,
\* the flip target moves to the head with the flag still set; the next
\* call's loop then retires it without another flip, and p->fb is left
\* naming a buffer that has gone back to the producer.
C26_CurrentFbQueued ==
    pc # "dead" =>
        \E i \in 1..Min({2, Len(bo_queue)}) : bo_queue[i].bo = p_fb

\* The same without collaborator failures.
C26_CurrentFbQueuedNoFault ==
    (pc # "dead" /\ faults = 0) =>
        \E i \in 1..Min({2, Len(bo_queue)}) : bo_queue[i].bo = p_fb

(***************************************************************************)
(* C27                                                                     *)
(***************************************************************************)

\* Every queue entry has a buffer, and the "Hole in swapchain?" branch has
\* not been taken.
NoHoles ==
    /\ \A i \in 1..Len(bo_queue) : bo_queue[i].bo \in Bos
    /\ Len(bo_queue) >= 2 => ~IsHole(bo_queue)
    /\ ~holeStep.seen

\* A step changes the queue only by removing entries from the head and by
\* appending one new entry that has a buffer; the entries that stay are not
\* modified.
EntriesKept ==
    \E k \in 0..Len(bo_queue) :
        LET rest == SubSeq(bo_queue, k + 1, Len(bo_queue))
        IN  \/ bo_queue' = rest
            \/ \E b \in Bos : bo_queue' = Append(rest, Frame(b, sbc + 1))

\* C27: no queue entry ever has an absent buffer: enqueue_bo is only reached
\* with a buffer, entries are not modified after the enqueue, and the "Hole
\* in swapchain?" branch of swap is never taken.
C27_NoHoles ==
    /\ []NoHoles
    /\ [][EntriesKept]_vars

\* C27 witness: the loop body is at the hole test with three entries, after
\* a call whose lock failed, and the test is false.
C27_Witness ==
    /\ pc = "body" /\ Len(bo_queue) = 3 /\ ~IsHole(bo_queue)
    /\ faults = 1 /\ sbc = MaxSbc
    /\ Len(released) = 1

====
